---- MODULE Spec2Model ----
(***************************************************************************)
(* Pixabay Sound Effects Downloader: the page-side scanner                 *)
(* (src/content-script.js) and the background download orchestrator        *)
(* (src/background.js) as state machines.  Each JavaScript context is      *)
(* single threaded: an action is one turn of the event loop, i.e. a        *)
(* message handler or a timer/callback continuation run up to its next     *)
(* suspension point (await of a timer or of a browser callback).  An       *)
(* await of an already settled promise does not let another handler run,   *)
(* so it is not a suspension point of the model.                           *)
(***************************************************************************)
EXTENDS Integers, Sequences, FiniteSets, TLC

(***************************************************************************)
(* Bounds of the model.                                                    *)
(***************************************************************************)
MaxClock == 1   \* Date.now() takes the values 0..MaxClock
MaxScans == 2   \* activations of scanSoundEffectsFromCurrentPage
MaxNodes == 2   \* candidate nodes on the page handed to the extractor
MaxScanNodes == 1  \* candidate nodes on the page a whole scan reads
MaxTok == 1     \* distinct numeric tokens embedded in item links
MaxRuns == 2    \* SOUND_EFFECTS_EXTRACTED messages the background handles
MaxItems == 2   \* item records in one such message
MaxCtl == 2     \* PAUSE_DOWNLOAD, RESUME_DOWNLOAD and CANCEL_DOWNLOAD messages
MaxDeliveries == 3  \* calls of the documented downloadSoundEffect
\* longest title, in characters, that the file-name functions are applied to
MaxTitle == 2
\* longest URL path, in elements, that the file-name functions are applied to
MaxUrl == 2
\* the lowest position the view is at when loading starts, in scrolls
MaxScrollY == 2

(***************************************************************************)
(* Program constants.                                                      *)
(***************************************************************************)
maxScrolls == 10        \* content-script.js:215
StableThreshold == 2    \* content-script.js:250  (stableCount >= 2)
batchSize == 10         \* content-script.js:413

Null == -1              \* JavaScript null for scrapingSessionId

\* item counts that countSoundEffectsOnCurrentPageFast() may measure
Counts == {0, 5, 8}

VARIABLES
    now,                 \* Date.now()
    challenge,           \* isCloudflareChallengePage()
    scrapingInProgress,  \* content-script.js:5
    scrapingSessionId,   \* content-script.js:6
    overlay,             \* the #pixabay-sound-scraping-progress element exists
    nscans,              \* activations of scanSoundEffectsFromCurrentPage so far
    scan,                \* the activation frames (locals and position)
    csOut,               \* messages sent with chrome.runtime.sendMessage
    hrefChanged,         \* window.location.href !== currentUrl (content-script.js:779)
    scanCalls,           \* calls of scanSoundEffectsFromCurrentPage so far
    ld,                  \* a loader run on its own: position and locals
    polled,              \* the counts that loader measured, in order
    page,                \* a page handed to the extractor on its own
    extracted,           \* what extractSoundEffectsOptimized returned for it
    isDownloadPaused,    \* background.js:5
    isDownloadCanceled,  \* background.js:6
    currentDownloadSession, \* background.js:7
    downloadQueue,       \* background.js:8, the number of records it holds
    nruns,               \* SOUND_EFFECTS_EXTRACTED messages handled so far
    run,                 \* the activations of startSoundEffectsDownload
    emitted,             \* per run, the messages its handler and loop handed to
                         \* sendMessageToPopup, in order
    notices,             \* how many DOWNLOAD_PAUSED, DOWNLOAD_RESUMED and
                         \* DOWNLOAD_CANCELED the control handlers sent
    attempts,            \* per run, the items whose delivery was begun, in order
    fails,               \* per run, the items whose delivery failed
    cancelSeen,          \* per run, cancelDownload ran while the run was live
    pauseHeld,           \* per run, Pause() came between two items and no Resume() since
    nctl,                \* control messages handled so far
    submitted,           \* per run, the calls of chrome.downloads.download: the item
                         \* and the field of it the URL was taken from
    popupOpen,           \* a popup is open and listens to chrome.runtime messages
    lost,                \* per run, a message of it was sent while no popup listened
    delivery,            \* one call of the documented downloadSoundEffect
    tab,                 \* where the tab of tabId is
    delivered,           \* the results of the calls that returned
    naming,              \* the item fields and URL a destination path is built from
    paths,               \* the destination paths handed to
                         \* chrome.downloads.download for it, in order
    restored,            \* what a popup that was opened again has restored from
                         \* the answer to its GET_EXTENSION_STATE
    requests             \* the scan requests the background passed on, in order:
                         \* what the page replied, whether a scan started and
                         \* whether the popup was sent SCANNING_ERROR for it

csVars == <<now, challenge, scrapingInProgress, scrapingSessionId, overlay,
            nscans, scan, csOut, hrefChanged, scanCalls>>

ldVars == <<ld, polled>>
exVars == <<page, extracted>>
bgVars == <<isDownloadPaused, isDownloadCanceled, currentDownloadSession, downloadQueue,
            nruns, run, emitted, notices, attempts, fails, cancelSeen,
            pauseHeld, nctl, submitted, popupOpen, lost>>

Scans == 1..MaxScans

\* frame of an activation that has not started or has returned
IdleFrame(p) ==
    [pc |-> p, currentSessionId |-> Null, scrollCount |-> 0,
     lastItemCount |-> 0, stableCount |-> 0,
     pending |-> <<>>, i |-> 0, soundEffects |-> <<>>,
     stoppedBy |-> "none",    \* why its loader stopped
     cancelled |-> FALSE,     \* cancelCurrentScan ran while it was in progress
     navigated |-> FALSE]     \* the page URL changed while it was in progress

\* frame of an activation that has returned: its session id and the reason
\* its loader stopped are kept
DoneFrame(f) ==
    [IdleFrame("done") EXCEPT !.currentSessionId = f.currentSessionId,
                              !.stoppedBy = f.stoppedBy]

(***************************************************************************)
(* The page handed to the extractor.  A candidate node is described by     *)
(* what the extractor reads of it: the selector class it matches, its      *)
(* link, which of the markup, playback and duration hints it carries, and  *)
(* whether its image names a photo, image, picture, illustration or        *)
(* vector.                                                                 *)
(***************************************************************************)
NoLink == -1      \* container.querySelector('a') finds nothing (itemUrl = '')
ImageLink == -2   \* href with /photo/, /illustration/ or /vector/, no audio segment
PlainLink == 0    \* href with an audio path segment and no /<digits>/ segment
\* link = t in 1..MaxTok: an audio href whose first /<digits>/ segment is t

Links == {ImageLink, NoLink, PlainLink} \cup (1..MaxTok)

\* '.audioRow--nAm4Z', '.overlayContainer--0ZpHP', and two of the
\* alternativeSelectors of extractUsingFallbackSelectors, in list order
alternativeSelectors == <<"audio-item", "data-type-audio">>
Selectors == {"audioRow", "overlayContainer", "audio-item", "data-type-audio"}

\* what checks 2, 3 and 4 of isAudioContainer look for
Hints == {"markup", "control", "duration"}

Containers == [sel : Selectors, link : Links, hint : SUBSET Hints, decoy : BOOLEAN]

RECURSIVE SeqsUpTo(_, _)
SeqsUpTo(S, n) ==
    IF n = 0 THEN {<<>>}
    ELSE LET shorter == SeqsUpTo(S, n - 1)
         IN  shorter \cup {Append(q, x) : q \in {r \in shorter : Len(r) = n - 1}, x \in S}

\* the pages of at most n candidate nodes
Pages(n) == SeqsUpTo(Containers, n)

\* content-script.js:309-323: a descendant carries an audio class or data
\* attribute, or the node itself matches one of these selectors, as every
\* node does whose class holds "audio" or whose data-type is "audio"
audioIndicators(c) == "markup" \in c.hint \/ c.sel # "overlayContainer"

\* a classifier that looks at the image indicators first
decidedBy_ImageFirst(c) ==
    IF c.decoy THEN 5
    ELSE IF c.link >= PlainLink THEN 1
    ELSE IF audioIndicators(c) THEN 2
    ELSE IF "control" \in c.hint THEN 3
    ELSE IF "duration" \in c.hint THEN 4
    ELSE 6

\* content-script.js:296-379: the return statement that ends the call.
\* Check 1 is the link's audio path segment (line 304), checks 2 to 4 are the
\* markup, playback and duration hints (lines 321, 338, 355), check 5 is the
\* image indicator (line 373), 6 is the last line (378).
decidedBy(c) ==
    IF c.link >= PlainLink THEN 1
    ELSE IF audioIndicators(c) THEN 2
    ELSE IF "control" \in c.hint THEN 3
    ELSE IF "duration" \in c.hint THEN 4
    ELSE IF c.decoy THEN 5
    ELSE 6

\* lines 304, 321, 338 and 355 return true, lines 373 and 378 return false
isAudioContainer(c) == decidedBy(c) \in 1..4

querySelectorAll(dom, s) == SelectSeq(dom, LAMBDA c : c.sel = s)

\* the id of an item record: the numeric token of the link, or `sound_${index}`
NumericId(t) == <<"num", t>>
IndexId(index) == <<"sound", index>>

\* content-script.js:530-539
itemId(c, index) == IF c.link >= 1 THEN NumericId(c.link) ELSE IndexId(index)

\* content-script.js:519-623; <<>> stands for the null result
extractSoundEffectOptimized(c, index) ==
    IF ~isAudioContainer(c) THEN <<>>            \* 522
    ELSE IF c.link = ImageLink THEN <<>>          \* 547-555
    ELSE IF c.decoy THEN <<>>                     \* 568-575
    ELSE IF c.link = NoLink THEN <<>>             \* 597-600
    ELSE <<[id |-> itemId(c, index)]>>

\* the records of nodes[1..Len], node j being given index base + j - 1
RECURSIVE extractEach(_, _)
extractEach(nodes, base) ==
    IF nodes = <<>> THEN <<>>
    ELSE extractSoundEffectOptimized(Head(nodes), base)
         \o extractEach(Tail(nodes), base + 1)

\* content-script.js:274-293: what the loader measures on the page dom
countSoundEffectsOnCurrentPageFast(dom) ==
    IF querySelectorAll(dom, "audioRow") # <<>>
    THEN Len(querySelectorAll(dom, "audioRow"))
    ELSE Len(SelectSeq(querySelectorAll(dom, "overlayContainer"), isAudioContainer))

\* an extractor that takes the audio rows and the classified containers together
audioContainers_Merged(dom) ==
    querySelectorAll(dom, "audioRow")
        \o SelectSeq(querySelectorAll(dom, "overlayContainer"), isAudioContainer)

\* content-script.js:387-403: the audio rows, else the classified containers
audioContainers(dom) ==
    LET rows == querySelectorAll(dom, "audioRow")
    IN  IF rows # <<>> THEN rows
        ELSE SelectSeq(querySelectorAll(dom, "overlayContainer"), isAudioContainer)

\* content-script.js:448-517
RECURSIVE firstAlternative(_, _)
firstAlternative(dom, n) ==
    IF n > Len(alternativeSelectors) THEN <<>>
    ELSE IF querySelectorAll(dom, alternativeSelectors[n]) # <<>>
         THEN querySelectorAll(dom, alternativeSelectors[n])
         ELSE firstAlternative(dom, n + 1)

extractUsingFallbackSelectors(dom) ==
    LET elements == firstAlternative(dom, 1)
        manual == SelectSeq(querySelectorAll(dom, "overlayContainer"), isAudioContainer)
    IN  IF elements # <<>>
        THEN extractEach(SubSeq(elements, 1, IF Len(elements) < 50 THEN Len(elements) ELSE 50), 0)
        ELSE extractEach(manual, 0)

\* content-script.js:381-446, the whole result when no cancellation intervenes
extractSoundEffectsOptimized(dom) ==
    IF audioContainers(dom) = <<>> THEN extractUsingFallbackSelectors(dom)
    ELSE extractEach(audioContainers(dom), 0)


(***************************************************************************)
(* The incremental loader, content-script.js:208-272.  One call of         *)
(* scrollStep on the loader's locals, given the count it measures and      *)
(* whether Date.now() - startTime > maxTime.  `stop` says that the step    *)
(* scrolled back to the top and scheduled resolve; `scrolled` that it      *)
(* called window.scrollBy; `measured` that it counted the items.           *)
(***************************************************************************)
LoaderStart == [scrollCount |-> 0, lastItemCount |-> 0, stableCount |-> 0]

stableCountAfter(l, c) == IF c = l.lastItemCount THEN l.stableCount + 1 ELSE 0

\* a loader for which the spent time budget is an error
timeoutStep_Reject(l) ==
    l @@ [stop |-> TRUE, scrolled |-> FALSE, measured |-> FALSE, shown |-> FALSE,
          settle |-> "reject", why |-> "budget"]

\* content-script.js:227-232: the time budget is spent
timeoutStep(l) ==
    l @@ [stop |-> TRUE, scrolled |-> FALSE, measured |-> FALSE, shown |-> FALSE,
          settle |-> "resolve", why |-> "budget"]

\* a loader without the iteration cap
capReached_Never(l) == FALSE

\* content-script.js:250, scrollCount >= maxScrolls
capReached(l) == l.scrollCount >= maxScrolls

scrollStep(l, c, late) ==
    IF late
    THEN timeoutStep(l)
    ELSE LET st == stableCountAfter(l, c)
             done == st >= StableThreshold \/ capReached(l)
         IN  [scrollCount   |-> IF done THEN l.scrollCount ELSE l.scrollCount + 1,
              lastItemCount |-> c,
              stableCount   |-> st,
              stop          |-> done,
              scrolled      |-> ~done,
              measured      |-> TRUE,
              shown         |-> c # l.lastItemCount,
              settle        |-> "resolve",                           \* 253
              why           |-> IF st >= StableThreshold THEN "stable"
                                ELSE IF done THEN "cap" ELSE "none"]

\* the view's vertical position after scrollStep returned r at position y,
\* counted in scrolls of window.scrollBy: lines 229 and 252 go to the top,
\* line 259 scrolls down once
scrollYAfter(y, r) ==
    IF r.stop THEN 0
    ELSE IF r.scrolled THEN y + 1
    ELSE y

(***************************************************************************)
(* The scanner, content-script.js:63-194 and 776-785.                      *)
(***************************************************************************)
\* the test of lines 149, 157, 165, 184, 222, 416 and 468
ScanIsCurrent(k) ==
    scrapingInProgress /\ scrapingSessionId = scan[k].currentSessionId

\* activation k is suspended at a timer
Suspended(k) == scan[k].pc \in {"waitForPageLoad", "scrollStep", "resolve", "batchYield"}

\* the activations that are the scan in progress
InProgress == {k \in Scans : Suspended(k) /\ ScanIsCurrent(k)}

\* a message of the content script: its action, the activation that sent it
\* and the number of item records it carries
Msg(a, k, its) == [action |-> a, from |-> k, n |-> Len(its)]

\* the scanner's flags, its session id and whether its overlay is shown
ScanFlags ==
    [scrapingInProgress |-> scrapingInProgress, scrapingSessionId |-> scrapingSessionId,
     overlay |-> overlay]

\* a cancel that leaves the session id in place
cancelCurrentScanOn_KeepsId(c) ==
    IF c.scrapingInProgress
    THEN [scrapingInProgress |-> FALSE, scrapingSessionId |-> c.scrapingSessionId,
          overlay |-> FALSE]
    ELSE c

\* content-script.js:120-127 on the flags c
cancelCurrentScanOn(c) ==
    IF c.scrapingInProgress
    THEN [scrapingInProgress |-> FALSE, scrapingSessionId |-> Null, overlay |-> FALSE]
    ELSE c

\* content-script.js:120-127
cancelCurrentScan ==
    /\ scrapingInProgress' = cancelCurrentScanOn(ScanFlags).scrapingInProgress
    /\ scrapingSessionId' = cancelCurrentScanOn(ScanFlags).scrapingSessionId
    /\ overlay' = cancelCurrentScanOn(ScanFlags).overlay
    /\ scan' = [k \in Scans |-> IF k \in InProgress
                                THEN [scan[k] EXCEPT !.cancelled = TRUE]
                                ELSE scan[k]]
    /\ UNCHANGED <<now, challenge, nscans, csOut, scanCalls>>

\* content-script.js:129-146, up to the await of waitForPageLoad
scanSoundEffectsFromCurrentPage ==
    /\ scanCalls' = scanCalls + 1
    /\ IF scrapingInProgress
       THEN UNCHANGED <<now, challenge, scrapingInProgress, scrapingSessionId, overlay,
                        nscans, scan, csOut, hrefChanged>>
       ELSE /\ scrapingInProgress' = TRUE
            /\ scrapingSessionId' = now
            /\ nscans' = nscans + 1
            /\ scan' = [scan EXCEPT ![nscans + 1] =
                           [IdleFrame("waitForPageLoad") EXCEPT !.currentSessionId = now]]
            /\ overlay' = TRUE
            /\ UNCHANGED <<now, challenge, csOut, hrefChanged>>

\* content-script.js:63-81 for a CANCEL_SCAN message, on the flags c of a
\* page that shows the challenge (ch) or not
handleCancelScanOn(c, ch) == IF ch THEN c ELSE cancelCurrentScanOn(c)

\* content-script.js:63-81
handleBackgroundMessage(action) ==
    IF challenge
    THEN UNCHANGED csVars
    ELSE IF action = "SCAN_SOUND_EFFECTS" THEN scanSoundEffectsFromCurrentPage
         ELSE /\ cancelCurrentScan
              /\ ScanFlags' = handleCancelScanOn(ScanFlags, challenge)
              /\ UNCHANGED hrefChanged

\* content-script.js:179-193: the catch and finally blocks after a throw
ScanCatch(k) ==
    /\ overlay' = FALSE
    /\ csOut' = IF ScanIsCurrent(k)
                THEN Append(csOut, Msg("SCANNING_ERROR", k, <<>>))
                ELSE csOut
    /\ scrapingInProgress' = FALSE
    /\ scrapingSessionId' = Null
    /\ scan' = [scan EXCEPT ![k] = DoneFrame(@)]
    /\ UNCHANGED <<now, challenge, nscans, hrefChanged, scanCalls>>

\* content-script.js:179-193 after the loader rejected although the scan is
\* current
ScanThrow(k, why) ==
    /\ overlay' = FALSE
    /\ csOut' = Append(csOut, Msg("SCANNING_ERROR", k, <<>>))
    /\ scrapingInProgress' = FALSE
    /\ scrapingSessionId' = Null
    /\ scan' = [scan EXCEPT ![k] = DoneFrame([@ EXCEPT !.stoppedBy = why])]
    /\ UNCHANGED <<now, challenge, nscans, hrefChanged, scanCalls>>

\* content-script.js:164-177 and 190-193: the final check, the result message,
\* the finally block
ScanReturn(k, items) ==
    IF ~ScanIsCurrent(k)
    THEN ScanCatch(k)
    ELSE /\ csOut' = Append(csOut, Msg("SOUND_EFFECTS_EXTRACTED", k, items))
         /\ overlay' = FALSE
         /\ scrapingInProgress' = FALSE
         /\ scrapingSessionId' = Null
         /\ scan' = [scan EXCEPT ![k] = DoneFrame(@)]
         /\ UNCHANGED <<now, challenge, nscans, hrefChanged, scanCalls>>

\* the 500 ms timer of waitForPageLoad fires: lines 148-154 and 208-270
PageLoadTimer(k) ==
    /\ scan[k].pc = "waitForPageLoad"
    /\ IF ~ScanIsCurrent(k)
       THEN ScanCatch(k)
       ELSE /\ scan' = [scan EXCEPT ![k] = [@ EXCEPT !.pc = "scrollStep"] ]
            /\ UNCHANGED <<now, challenge, scrapingInProgress, scrapingSessionId, hrefChanged, scanCalls,
                           overlay, nscans, csOut>>

\* a timer of the loader fires scrollStep: lines 220-267
ScrollTimer(k) ==
    /\ scan[k].pc = "scrollStep"
    /\ IF ~ScanIsCurrent(k)
       THEN ScanCatch(k)
       ELSE \E c \in Counts, late \in BOOLEAN :
              LET l == [scrollCount |-> scan[k].scrollCount,
                        lastItemCount |-> scan[k].lastItemCount,
                        stableCount |-> scan[k].stableCount]
                  r == scrollStep(l, c, late)
              IN  IF r.stop /\ r.settle = "reject"
                  THEN ScanThrow(k, r.why)
                  ELSE
                  /\ scan' = [scan EXCEPT ![k] =
                                IF r.stop
                                THEN [@ EXCEPT !.scrollCount = 0, !.lastItemCount = 0,
                                               !.stableCount = 0, !.pc = "resolve",
                                               !.stoppedBy = r.why]
                                ELSE [@ EXCEPT !.scrollCount = r.scrollCount,
                                               !.lastItemCount = r.lastItemCount,
                                               !.stableCount = r.stableCount]]
                  /\ overlay' = (overlay \/ r.shown)
                  /\ UNCHANGED <<now, challenge, scrapingInProgress, scrapingSessionId, hrefChanged, scanCalls,
                                 nscans, csOut>>

\* lines 414-441: one batch of the containers still pending, then the yield
ProcessBatch(k, pend, i, got) ==
    LET n == IF Len(pend) < batchSize THEN Len(pend) ELSE batchSize
        batch == SubSeq(pend, 1, n)
    IN  /\ scan' = [scan EXCEPT ![k] =
                      [@ EXCEPT !.pc = "batchYield",
                                !.pending = SubSeq(pend, n + 1, Len(pend)),
                                !.i = i + batchSize,
                                !.soundEffects = got \o extractEach(batch, i)]]
        /\ overlay' = TRUE
        /\ UNCHANGED <<now, challenge, scrapingInProgress, scrapingSessionId, hrefChanged, scanCalls,
                       nscans, csOut>>

\* the 1000 ms timer set when the loader stopped fires resolve: lines 156-177
\* with extractSoundEffectsOptimized up to its first timer
ResolveTimer(k) ==
    /\ scan[k].pc = "resolve"
    /\ IF ~ScanIsCurrent(k)
       THEN ScanCatch(k)
       ELSE \E dom \in Pages(MaxScanNodes) :
              IF audioContainers(dom) = <<>>
              THEN ScanReturn(k, extractUsingFallbackSelectors(dom))
              ELSE ProcessBatch(k, audioContainers(dom), 0, <<>>)

\* the 10 ms timer between batches fires: lines 414-446 and 164-177
BatchTimer(k) ==
    /\ scan[k].pc = "batchYield"
    /\ IF scan[k].pending = <<>>
       THEN ScanReturn(k, scan[k].soundEffects)
       ELSE IF ~ScanIsCurrent(k)
            THEN ScanCatch(k)
            ELSE ProcessBatch(k, scan[k].pending, scan[k].i, scan[k].soundEffects)

\* background.js:114-141: chrome.tabs.sendMessage passes the request on to the
\* page.  The promise rejects when no content script listens in the tab, and
\* only then is the popup sent SCANNING_ERROR; the value it resolves with
\* (the { error } the page replies under a challenge) is not read.
handleSoundEffectsScan ==
    \E reachable \in BOOLEAN :
        IF reachable
        THEN /\ handleBackgroundMessage("SCAN_SOUND_EFFECTS")
             /\ requests' = Append(requests,
                                   [reply |-> IF challenge THEN "error" ELSE "none",
                                    started |-> nscans' # nscans,
                                    notified |-> FALSE])
        ELSE /\ UNCHANGED csVars
             /\ requests' = Append(requests,
                                   [reply |-> "rejected", started |-> FALSE,
                                    notified |-> TRUE])

\* the popup's START_SOUND_EFFECTS_SCAN arrives
ScanRequest ==
    /\ Len(requests) < MaxScans
    /\ handleSoundEffectsScan

rqVars == <<requests>>

rqInit == requests = <<>>

\* the background asks to cancel the scan
CancelRequest == handleBackgroundMessage("CANCEL_SCAN")

\* the page navigates without a reload: window.location.href changes
UrlChange ==
    /\ ~hrefChanged
    /\ hrefChanged' = TRUE
    /\ scan' = [k \in Scans |-> IF k \in InProgress
                                THEN [scan[k] EXCEPT !.navigated = TRUE]
                                ELSE scan[k]]
    /\ UNCHANGED <<now, challenge, scrapingInProgress, scrapingSessionId, overlay,
                   nscans, csOut, scanCalls>>

\* content-script.js:778-785: the 2000 ms poll sees the new location
NavigationPoll ==
    /\ hrefChanged
    /\ hrefChanged' = FALSE
    /\ cancelCurrentScan

\* the host page shows or clears its challenge
ChallengeChange ==
    /\ challenge' = ~challenge
    /\ UNCHANGED <<now, scrapingInProgress, scrapingSessionId, overlay, nscans, scan, csOut,
                   hrefChanged, scanCalls>>

\* the millisecond clock advances
Tick ==
    /\ now < MaxClock
    /\ now' = now + 1
    /\ UNCHANGED <<challenge, scrapingInProgress, scrapingSessionId, overlay, nscans, scan, csOut,
                   hrefChanged, scanCalls>>

csInit ==
    /\ now = 0
    /\ challenge = FALSE
    /\ scrapingInProgress = FALSE
    /\ scrapingSessionId = Null
    /\ overlay = FALSE
    /\ nscans = 0
    /\ scan = [k \in Scans |-> IdleFrame("none")]
    /\ csOut = <<>>
    /\ hrefChanged = FALSE
    /\ scanCalls = 0

(***************************************************************************)
(* The loader on its own: scrollToLoadAllOptimized of an uncancelled scan, *)
(* with the whole sequence of counts it measured.                          *)
(***************************************************************************)
LoaderAt(y) == LoaderStart @@ [pc |-> "scrollStep", late |-> FALSE, startY |-> y, scrollY |-> y]

\* no loader is run on its own
ldIdle ==
    /\ ld = LoaderAt(0)
    /\ polled = <<>>

\* loading starts with the view at any position
ldInit ==
    /\ ld \in {LoaderAt(y) : y \in 0..MaxScrollY}
    /\ polled = <<>>

\* a timer fires scrollStep, which measures c unless the time budget is spent
LoaderPoll ==
    /\ ld.pc = "scrollStep"
    /\ \E c \in Counts, late \in BOOLEAN :
         LET r == scrollStep([scrollCount |-> ld.scrollCount,
                              lastItemCount |-> ld.lastItemCount,
                              stableCount |-> ld.stableCount], c, late)
         IN  /\ ld' = [scrollCount |-> r.scrollCount,
                       lastItemCount |-> r.lastItemCount,
                       stableCount |-> r.stableCount,
                       pc |-> IF r.stop THEN "resolve" ELSE "scrollStep",
                       late |-> late,
                       startY |-> ld.startY,
                       scrollY |-> scrollYAfter(ld.scrollY, r)]
             /\ polled' = IF r.measured THEN Append(polled, c) ELSE polled

(***************************************************************************)
(* The extractor on its own: extractSoundEffectsOptimized applied to a     *)
(* page.                                                                   *)
(***************************************************************************)
exInit ==
    /\ page \in Pages(MaxNodes)
    /\ extracted = [done |-> FALSE, soundEffects |-> <<>>]

exIdle ==
    /\ page = <<>>
    /\ extracted = [done |-> FALSE, soundEffects |-> <<>>]

Extract ==
    /\ ~extracted.done
    /\ extracted' = [done |-> TRUE, soundEffects |-> extractSoundEffectsOptimized(page)]
    /\ UNCHANGED page

(***************************************************************************)
(* The download orchestrator, background.js:143-163 and 175-338.           *)
(* The fields of soundEffects[i] are read once, when downloadSoundEffect   *)
(* is called for item i (line 257); the model draws them there.            *)
(***************************************************************************)
Runs == 1..MaxRuns

Items == [downloadUrl : {"none", "page", "audio", "foreign"}, previewUrl : BOOLEAN]

\* background.js:257-270: the field downloadSoundEffect takes the URL from,
\* "none" when it throws `No suitable download URL found`
downloadUrlOf(item) ==
    IF item.downloadUrl = "audio" THEN "downloadUrl"
    ELSE IF item.previewUrl THEN "previewUrl"
    ELSE IF item.downloadUrl = "page" THEN "downloadUrl"
    ELSE "none"

NoRun(p) == [pc |-> p, i |-> 0, totalCount |-> 0, downloadedCount |-> 0]

PopupMsg(a, c) == [action |-> a, count |-> c]

\* background.js:218-222, the progress message of a run in frame f
ProgressMsg(f) ==
    [action |-> "UPDATE_PROGRESS", current |-> f.downloadedCount, total |-> f.totalCount]

\* a run is live from its start to its closing notification
Live(r) == run[r].pc \in {"pauseSleep", "download", "sleep"}

\* background.js:233-244
Closing(f, canceled) ==
    PopupMsg(IF canceled THEN "DOWNLOAD_CANCELED" ELSE "DOWNLOAD_COMPLETE",
             f.downloadedCount)

\* a loop that gives up the remaining items after a failed delivery
AfterFailure_Abort(f) == [f EXCEPT !.i = f.totalCount]

\* what the for loop does after a failed delivery of item f.i (line 227-230)
AfterFailure(f) == [f EXCEPT !.i = @ + 1]

\* a loop that does not count a delivered item
AfterSuccess_NotCounted(f) == [f EXCEPT !.pc = "sleep"]

\* what the for loop does after a successful delivery (lines 215 and 225)
AfterSuccess(f) == [f EXCEPT !.downloadedCount = @ + 1, !.pc = "sleep"]

\* a loop that does not advance after a delivered item
AfterSleep_Repeat(f) == f

\* the i++ of line 197 once the sleep of line 225 is over
AfterSleep(f) == [f EXCEPT !.i = @ + 1]

(***************************************************************************)
(* The for loop of startSoundEffectsDownload from the top of iteration f.i *)
(* to its next suspension, under the flag values given: the set of         *)
(* configurations [f, att, fl, out] it can reach, one for each choice of   *)
(* the items that throw before a download is submitted; sub holds the call *)
(* of chrome.downloads.download (lines 280-285) it ends with, if any.      *)
(***************************************************************************)
RECURSIVE Loop(_, _, _, _, _, _)
Attempt(f, att, fl, out, paused, canceled) ==
    UNION {IF downloadUrlOf(item) = "none"
           THEN Loop(AfterFailure(f), Append(att, f.i), fl \cup {f.i}, out,
                     paused, canceled)
           ELSE {[f |-> [f EXCEPT !.pc = "download"], att |-> Append(att, f.i),
                  fl |-> fl, out |-> out,
                  sub |-> <<[i |-> f.i, url |-> downloadUrlOf(item)]>>]} : item \in Items}

Loop(f, att, fl, out, paused, canceled) ==
    IF f.i >= f.totalCount \/ canceled                                \* 197-202
    THEN {[f |-> [f EXCEPT !.pc = "done"], att |-> att, fl |-> fl,
           out |-> Append(out, Closing(f, canceled)), sub |-> <<>>]}
    ELSE IF paused                                                    \* 204-205
    THEN {[f |-> [f EXCEPT !.pc = "pauseSleep"], att |-> att, fl |-> fl, out |-> out,
           sub |-> <<>>]}
    ELSE Attempt(f, att, fl, out, paused, canceled)                \* 211-214

\* a send whose failure reaches the caller when no popup listens
sendMessageToPopup_Propagates(open) == IF open THEN "returned" ELSE "thrown"

\* background.js:354-362: what the caller of sendMessageToPopup sees.  The
\* rejection of chrome.runtime.sendMessage when no popup listens is caught
\* and logged inside the function.
sendMessageToPopup(open) == "returned"

\* configuration c was reached from the messages `before` with sends made
\* while the popup's presence was `open`: a send that threw would leave the
\* try block for the catch of lines 246-251, which sends DOWNLOAD_ERROR
AfterSends(c, before, open) ==
    IF Len(c.out) > Len(before) /\ sendMessageToPopup(open) = "thrown"
    THEN [c EXCEPT !.f = [@ EXCEPT !.pc = "done"],
                   !.out = Append(before, PopupMsg("DOWNLOAD_ERROR", 0)),
                   !.sub = <<>>]
    ELSE c

\* run r moves to configuration c
Moves(r, c) ==
    LET d == AfterSends(c, emitted[r], popupOpen)
    IN  /\ run' = [run EXCEPT ![r] = d.f]
        /\ attempts' = [attempts EXCEPT ![r] = d.att]
        /\ fails' = [fails EXCEPT ![r] = d.fl]
        /\ emitted' = [emitted EXCEPT ![r] = d.out]
        /\ submitted' = [submitted EXCEPT ![r] = @ \o d.sub]
        /\ lost' = [lost EXCEPT ![r] = @ \/ (~popupOpen /\ Len(d.out) > Len(emitted[r]))]

\* a start that leaves the control flags as it finds them
startSoundEffectsDownload_KeepsFlags(n) ==
    LET r == nruns + 1
        f == [pc |-> "start", i |-> 0, totalCount |-> n, downloadedCount |-> 0]
    IN  /\ currentDownloadSession' = now
        /\ downloadQueue' = n
        /\ \E c \in Loop(f, <<>>, {},
                         <<PopupMsg("SOUND_EFFECTS_SCANNED", n),
                           PopupMsg("DOWNLOAD_STARTED", n)>>,
                         isDownloadPaused, isDownloadCanceled) : Moves(r, c)
        /\ nruns' = r
        /\ UNCHANGED <<isDownloadPaused, isDownloadCanceled, notices, cancelSeen, pauseHeld,
                       nctl, popupOpen>>

\* background.js:175-214
startSoundEffectsDownload(n) ==
    LET r == nruns + 1
        f == [pc |-> "start", i |-> 0, totalCount |-> n, downloadedCount |-> 0]
    IN  /\ isDownloadPaused' = FALSE
        /\ isDownloadCanceled' = FALSE
        /\ currentDownloadSession' = now
        /\ downloadQueue' = n
        /\ \E c \in Loop(f, <<>>, {},
                         <<PopupMsg("SOUND_EFFECTS_SCANNED", n),
                           PopupMsg("DOWNLOAD_STARTED", n)>>,
                         FALSE, FALSE) : Moves(r, c)
        /\ nruns' = r
        /\ UNCHANGED <<notices, cancelSeen, pauseHeld, nctl, popupOpen>>

\* a handler that starts a run whatever the number of records
handleSoundEffectsExtracted_AlwaysStarts(n) == startSoundEffectsDownload(n)

\* background.js:143-163
handleSoundEffectsExtracted(n) ==
    IF n > 0
    THEN startSoundEffectsDownload(n)
    ELSE /\ emitted' = [emitted EXCEPT ![nruns + 1] =
                            <<PopupMsg("SOUND_EFFECTS_SCANNED", 0),
                              PopupMsg("SCANNING_ERROR", 0)>>]
         /\ nruns' = nruns + 1
         /\ run' = [run EXCEPT ![nruns + 1] = NoRun("empty")]
         /\ lost' = [lost EXCEPT ![nruns + 1] = ~popupOpen]
         /\ UNCHANGED <<isDownloadPaused, isDownloadCanceled, currentDownloadSession,
                        downloadQueue, notices, attempts, fails, cancelSeen, pauseHeld,
                        nctl, submitted, popupOpen>>

\* background.js:320-324
pauseDownload ==
    /\ isDownloadPaused' = TRUE
    /\ notices' = [notices EXCEPT !.DOWNLOAD_PAUSED = @ + 1]
    /\ pauseHeld' = [r \in Runs |-> pauseHeld[r] \/ run[r].pc \in {"sleep", "pauseSleep"}]
    /\ UNCHANGED <<isDownloadCanceled, currentDownloadSession, downloadQueue, nruns, run,
                   emitted, attempts, fails, cancelSeen, submitted, popupOpen, lost>>

\* background.js:326-330
resumeDownload ==
    /\ isDownloadPaused' = FALSE
    /\ notices' = [notices EXCEPT !.DOWNLOAD_RESUMED = @ + 1]
    /\ pauseHeld' = [r \in Runs |-> FALSE]
    /\ UNCHANGED <<isDownloadCanceled, currentDownloadSession, downloadQueue, nruns, run,
                   emitted, attempts, fails, cancelSeen, submitted, popupOpen, lost>>

\* the orchestrator's control variables; downloadQueue by its length
DownloadFlags ==
    [isDownloadPaused |-> isDownloadPaused, isDownloadCanceled |-> isDownloadCanceled,
     currentDownloadSession |-> currentDownloadSession, downloadQueue |-> downloadQueue]

\* a cancel that flips the canceled flag
cancelDownloadOn_Toggles(b) ==
    [b EXCEPT !.isDownloadCanceled = ~@, !.isDownloadPaused = FALSE, !.downloadQueue = 0]

\* background.js:332-338 on the control variables b
cancelDownloadOn(b) ==
    [b EXCEPT !.isDownloadCanceled = TRUE, !.isDownloadPaused = FALSE, !.downloadQueue = 0]

\* a cancel handler that closes the live runs itself
cancelDownload_ClosesRuns ==
    /\ isDownloadCanceled' = TRUE
    /\ isDownloadPaused' = FALSE
    /\ downloadQueue' = 0
    /\ notices' = [notices EXCEPT !.DOWNLOAD_CANCELED = @ + 1]
    /\ cancelSeen' = [r \in Runs |-> cancelSeen[r] \/ Live(r)]
    /\ emitted' = [r \in Runs |-> IF Live(r) THEN Append(emitted[r], Closing(run[r], TRUE))
                                  ELSE emitted[r]]
    /\ UNCHANGED <<currentDownloadSession, nruns, run, attempts, fails, pauseHeld,
                   submitted, popupOpen, lost>>

\* background.js:332-338
cancelDownload ==
    /\ isDownloadCanceled' = cancelDownloadOn(DownloadFlags).isDownloadCanceled
    /\ isDownloadPaused' = cancelDownloadOn(DownloadFlags).isDownloadPaused
    /\ downloadQueue' = cancelDownloadOn(DownloadFlags).downloadQueue
    /\ notices' = [notices EXCEPT !.DOWNLOAD_CANCELED = @ + 1]
    /\ cancelSeen' = [r \in Runs |-> cancelSeen[r] \/ Live(r)]
    /\ UNCHANGED <<currentDownloadSession, nruns, run, emitted, attempts, fails, pauseHeld,
                   submitted, popupOpen, lost>>

\* the content script's SOUND_EFFECTS_EXTRACTED message arrives with n records
ExtractedMsg ==
    /\ nruns < MaxRuns
    /\ \E n \in 0..MaxItems : handleSoundEffectsExtracted(n)

\* the control surface's PAUSE_DOWNLOAD, RESUME_DOWNLOAD, CANCEL_DOWNLOAD
PauseMsg == nctl < MaxCtl /\ nctl' = nctl + 1 /\ pauseDownload
ResumeMsg == nctl < MaxCtl /\ nctl' = nctl + 1 /\ resumeDownload
CancelMsg == nctl < MaxCtl /\ nctl' = nctl + 1 /\ cancelDownload

BgFlagsUnchanged ==
    UNCHANGED <<isDownloadPaused, isDownloadCanceled, currentDownloadSession,
                downloadQueue, nruns, notices, cancelSeen, pauseHeld, nctl, popupOpen>>

\* the sleep(500) of the pause loop ends: lines 205-214
PauseTimer(r) ==
    /\ run[r].pc = "pauseSleep"
    /\ IF isDownloadCanceled
       THEN \E c \in Loop(run[r], attempts[r], fails[r], emitted[r], FALSE, TRUE) :
                Moves(r, c)
       ELSE IF isDownloadPaused
            THEN UNCHANGED <<run, attempts, fails, emitted, submitted, lost>>
            ELSE \E c \in Attempt(run[r], attempts[r], fails[r], emitted[r],
                                  isDownloadPaused, isDownloadCanceled) : Moves(r, c)
    /\ BgFlagsUnchanged

\* chrome.downloads.download calls back: lines 286-294, 215-230 and 197-214
DownloadCallback(r) ==
    /\ run[r].pc = "download"
    /\ \/ Moves(r, [f |-> AfterSuccess(run[r]), att |-> attempts[r], fl |-> fails[r],
                     out |-> Append(emitted[r], ProgressMsg(AfterSuccess(run[r]))),
                     sub |-> <<>>])
       \/ \E c \in Loop(AfterFailure(run[r]), attempts[r], fails[r] \cup {run[r].i},
                        emitted[r], isDownloadPaused, isDownloadCanceled) : Moves(r, c)
    /\ BgFlagsUnchanged

\* the sleep(500) between downloads ends: lines 225 and 197-214
SleepTimer(r) ==
    /\ run[r].pc = "sleep"
    /\ \E c \in Loop(AfterSleep(run[r]), attempts[r], fails[r], emitted[r],
                     isDownloadPaused, isDownloadCanceled) : Moves(r, c)
    /\ BgFlagsUnchanged

puVars == <<restored>>

\* the popup's variables as its script initialises them
PopupDefaults == [asked |-> FALSE, isDownloading |-> FALSE, isPaused |-> FALSE,
                  currentProgress |-> Null]

\* background.js:11-43: the switch of the listener has no case for
\* GET_EXTENSION_STATE, so sendResponse is never called and the popup's
\* sendMessage yields no response
StateResponse == [state |-> FALSE]

\* restoreExtensionState, FOLDER_DOWNLOAD_STRUCTURE_FIX.md:672-734: without
\* a response carrying a state the popup keeps its initial values
restoreExtensionState(response) ==
    IF response.state
    THEN [asked |-> TRUE, isDownloading |-> response.isDownloading,
          isPaused |-> response.isPaused, currentProgress |-> response.currentProgress]
    ELSE [PopupDefaults EXCEPT !.asked = TRUE]

\* a popup opened during the session asks for the state to restore
GetStateMsg ==
    /\ popupOpen
    /\ restored' = restoreExtensionState(StateResponse)
    /\ UNCHANGED bgVars

puInit == restored = PopupDefaults

\* the user closes the popup, or opens it again
PopupToggle ==
    /\ popupOpen' = ~popupOpen
    /\ UNCHANGED <<isDownloadPaused, isDownloadCanceled, currentDownloadSession,
                   downloadQueue, nruns, run, emitted, notices, attempts, fails,
                   cancelSeen, pauseHeld, nctl, submitted, lost>>

bgInit ==
    /\ isDownloadPaused = FALSE
    /\ isDownloadCanceled = FALSE
    /\ currentDownloadSession = Null
    /\ downloadQueue = 0
    /\ nruns = 0
    /\ run = [r \in Runs |-> NoRun("none")]
    /\ emitted = [r \in Runs |-> <<>>]
    /\ notices = [DOWNLOAD_PAUSED |-> 0, DOWNLOAD_RESUMED |-> 0, DOWNLOAD_CANCELED |-> 0]
    /\ attempts = [r \in Runs |-> <<>>]
    /\ fails = [r \in Runs |-> {}]
    /\ cancelSeen = [r \in Runs |-> FALSE]
    /\ pauseHeld = [r \in Runs |-> FALSE]
    /\ nctl = 0
    /\ submitted = [r \in Runs |-> <<>>]
    /\ popupOpen = TRUE
    /\ lost = [r \in Runs |-> FALSE]

(***************************************************************************)
(* The delivery cascade of downloadSoundEffect as the repository documents *)
(* it: the four methods of BUTTON_CLICK_ERROR_FIX.md:132-152, the first of *)
(* them in full in DUPLICATE_DOWNLOAD_AND_FOLDER_FIX.md:173-255.           *)
(* background.js:255-300 keeps the last method only.                       *)
(***************************************************************************)
dvVars == <<delivery, tab, delivered>>

Methods == 1..4
NoResult == "none"

\* what the cascade reads of an item: whether pageUrl is an individual page
\* and whether there is a profileUrl
SoundEffects == [individual : BOOLEAN, profileUrl : BOOLEAN]

NoDelivery ==
    [pc |-> "idle", item |-> [individual |-> FALSE, profileUrl |-> FALSE],
     method |-> 0, result |-> NoResult, invoked |-> [m \in Methods |-> 0], won |-> 0,
     left |-> "none"]

\* a cascade that tries every method whatever the earlier ones returned
Pending_Always(result) == TRUE

\* the !result test in front of methods 2, 3 and 4
Pending(result) == result = NoResult

\* the condition in front of method m
Applies(d, m) ==
    CASE m = 1 -> d.item.individual
      [] m = 2 -> Pending(d.result) /\ d.item.profileUrl
      [] OTHER -> Pending(d.result)

\* run on from method m to the next call that is awaited, or to the end
RECURSIVE RunFrom(_, _)
RunFrom(d, m) ==
    IF m \notin Methods THEN [d EXCEPT !.pc = "returned", !.method = 0]
    ELSE IF Applies(d, m)
         THEN [d EXCEPT !.pc = "awaiting", !.method = m, !.invoked[m] = @ + 1]
         ELSE RunFrom(d, m + 1)

\* what method m leaves in result when it succeeds
ResultOf(m) ==
    CASE m = 1 -> "NATIVE_DOWNLOAD_TRIGGERED"
      [] m = 2 -> "SUCCESS_PROFILE_CLICK"
      [] m = 3 -> "AUDIO_URL"
      [] OTHER -> "DOWNLOAD_ID"

\* where the tab is once method m has been called
TabDuring(d, m, t) ==
    CASE m = 1 -> "individual"
      [] m = 2 -> "profile"
      [] OTHER -> t

\* where the tab is once method m has settled: method 1 navigates back to
\* the profile after a SUCCESS and after an exception, if there is a profileUrl
TabAfter(d, m, outcome, t) ==
    IF m = 1 /\ outcome \in {"SUCCESS", "throw"} /\ d.item.profileUrl
    THEN "profile" ELSE t

\* downloadSoundEffect is called for an item and runs to its first await
downloadSoundEffect ==
    /\ delivery.pc \in {"idle", "returned"}
    /\ Len(delivered) < MaxDeliveries
    /\ \E item \in SoundEffects :
         LET d == RunFrom([NoDelivery EXCEPT !.item = item], 1)
         IN  /\ delivery' = d
             /\ tab' = IF d.pc = "awaiting" THEN TabDuring(d, d.method, tab) ELSE tab
             /\ delivered' = IF d.pc = "returned"
                             THEN Append(delivered, d.result) ELSE delivered

\* the awaited method settles and the function runs on
MethodSettles ==
    /\ delivery.pc = "awaiting"
    /\ \E outcome \in {"SUCCESS", "FAILED", "throw"} :
         LET m == delivery.method
             got == IF outcome = "SUCCESS"
                    THEN [delivery EXCEPT !.result = ResultOf(m),
                                          !.won = IF @ = 0 THEN m ELSE @]
                    ELSE delivery
             \* left: where the block of method 1 (lines 197-245) leaves the tab
             d == RunFrom([got EXCEPT !.left = IF m = 1
                                               THEN TabAfter(delivery, m, outcome, tab)
                                               ELSE @], m + 1)
         IN  /\ delivery' = d
             /\ tab' = IF d.pc = "awaiting"
                       THEN TabDuring(d, d.method, TabAfter(delivery, m, outcome, tab))
                       ELSE TabAfter(delivery, m, outcome, tab)
             /\ delivered' = IF d.pc = "returned"
                             THEN Append(delivered, d.result) ELSE delivered

dvInit ==
    /\ delivery = NoDelivery
    /\ tab = "profile"
    /\ delivered = <<>>

(***************************************************************************)
(* Destination paths.  A string is the sequence of its characters; a word  *)
(* that no function below looks into (an extension, the folder name, the   *)
(* "sound_" prefix of a generated id) is written as one element.           *)
(* background.js:272-275 builds the structured path; chromeDownloadFile,   *)
(* DUPLICATE_DOWNLOAD_AND_FOLDER_FIX.md:268-349 with the per-part          *)
(* sanitization of CONFIG_UI_VISIBILITY_FIX.md:308-321, sanitizes its      *)
(* parts and flattens it for the retry.                                    *)
(***************************************************************************)
fnVars == <<naming, paths>>

TitleChars == {"a", "B", ".", "/", " "}
UrlChars == {"/x", ".", "mp3", "WAV", "exe"}
audioExtensions == {"mp3", "wav", "ogg", "aac", "m4a", "flac"}
folderName == "pixabay_sound_effects"

Strings(A, n) == UNION {[1..k -> A] : k \in 0..n}

\* the two forms of id the extractor produces: the digits of the link, "sound_<index>"
ItemIds == {<<"7">>, <<"sound_", "0">>}

NoNaming == [title |-> <<>>, id |-> <<>>, url |-> <<>>, set |-> FALSE]

\* title and id of an item and the path of its download URL, which starts with "/"

Namings(nt, nu) ==
    {[title |-> t, id |-> i, url |-> u, set |-> TRUE] :
        t \in Strings(TitleChars, nt), i \in ItemIds,
        u \in {<<"/x">> \o rest : rest \in Strings(UrlChars, nu)}}

toLowerCase(c) == CASE c = "B" -> "b" [] c = "WAV" -> "wav" [] OTHER -> c

\* s.replace(/[R]+/g, y): every maximal run of characters of R becomes one y
RECURSIVE replaceRuns(_, _, _)
replaceRuns(s, R, y) ==
    IF s = <<>> THEN <<>>
    ELSE IF Head(s) \notin R THEN <<Head(s)>> \o replaceRuns(Tail(s), R, y)
    ELSE IF Len(s) > 1 /\ s[2] \in R THEN replaceRuns(Tail(s), R, y)
    ELSE <<y>> \o replaceRuns(Tail(s), R, y)

substring(s, n) == SubSeq(s, 1, IF Len(s) < n THEN Len(s) ELSE n)

sanitizeFilename(filename) ==
    IF filename = <<>> THEN <<"unknown">>
    ELSE LET replaced == [i \in 1..Len(filename) |->
                             IF filename[i] \in {"<", ">", ":", "\"", "/", "\\", "|", "?", "*"}
                             THEN "_" ELSE filename[i]]
             spaced == replaceRuns(replaced, {" "}, "_")
             collapsed == replaceRuns(spaced, {"_"}, "_")
         IN substring([i \in 1..Len(collapsed) |-> toLowerCase(collapsed[i])], 50)

\* s.split(sep)
RECURSIVE split(_, _)
split(s, sep) ==
    IF \A i \in 1..Len(s) : s[i] # sep THEN <<s>>
    ELSE LET i == CHOOSE i \in 1..Len(s) : s[i] = sep /\ \A j \in 1..(i - 1) : s[j] # sep
         IN <<SubSeq(s, 1, i - 1)>> \o split(SubSeq(s, i + 1, Len(s)), sep)

\* parts.join(sep)
RECURSIVE join(_, _)
join(parts, sep) ==
    IF parts = <<>> THEN <<>>
    ELSE IF Len(parts) = 1 THEN parts[1]
    ELSE parts[1] \o <<sep>> \o join(Tail(parts), sep)

RECURSIVE trimStart(_)
trimStart(s) == IF s # <<>> /\ Head(s) = " " THEN trimStart(Tail(s)) ELSE s

RECURSIVE trimEnd(_)
trimEnd(s) == IF s # <<>> /\ s[Len(s)] = " " THEN trimEnd(SubSeq(s, 1, Len(s) - 1)) ELSE s

trim(s) == trimEnd(trimStart(s))

getFileExtensionFromUrl(pathname) ==
    LET segments == split(pathname, ".")
        last == segments[Len(segments)]
        extension == [i \in 1..Len(last) |-> toLowerCase(last[i])]
    IN IF Len(extension) = 1 /\ extension[1] \in audioExtensions THEN extension[1] ELSE "mp3"

\* the path of downloadSoundEffect, background.js:272-275
filenameOf(n) ==
    LET safeTitle == sanitizeFilename(IF n.title # <<>> THEN n.title
                                      ELSE <<"sound_effect_">> \o n.id)
        extension == getFileExtensionFromUrl(n.url)
    IN <<folderName, "/">> \o safeTitle \o <<"_">> \o n.id \o <<".", extension>>

replaceReserved(part) ==
    [i \in 1..Len(part) |->
        IF part[i] \in {"<", ">", ":", "\"", "|", "?", "*"} THEN "_" ELSE part[i]]

replaceDots(part) == [i \in 1..Len(part) |-> IF part[i] = "." THEN "_" ELSE part[i]]

\* the sanitization before the fix: every part loses its dots
sanitizePart_EveryDot(part, isLastPart) == trim(replaceDots(replaceReserved(part)))

sanitizePart(part, isLastPart) ==
    IF isLastPart THEN trim(replaceReserved(part))
    ELSE trim(replaceDots(replaceReserved(part)))

processedFilename(filename) ==
    IF \E i \in 1..Len(filename) : filename[i] = "/"
    THEN LET pathParts == split(filename, "/")
             sanitized == [i \in 1..Len(pathParts) |->
                              sanitizePart(pathParts[i], i = Len(pathParts))]
             validParts == SelectSeq(sanitized, LAMBDA part : part # <<>>)
         IN IF Len(validParts) > 1 THEN join(validParts, "/")
            ELSE IF Len(validParts) = 1 THEN validParts[1]
            ELSE <<"download_", "now", ".", "mp3">>
    ELSE filename

flatFilename(processed) ==
    [i \in 1..Len(processed) |-> IF processed[i] = "/" THEN "_" ELSE processed[i]]

\* downloadSoundEffect builds the path and the first download is submitted
SubmitStructured ==
    /\ naming.set
    /\ paths = <<>>
    /\ paths' = <<processedFilename(filenameOf(naming))>>
    /\ UNCHANGED naming

\* the first download failed: the retry is submitted with the flattened name
SubmitFlattened ==
    /\ Len(paths) = 1
    /\ paths' = Append(paths, flatFilename(paths[1]))
    /\ UNCHANGED naming

fnIdle == naming = NoNaming /\ paths = <<>>

fnInit == naming \in Namings(MaxTitle, MaxUrl) /\ paths = <<>>


(***************************************************************************)
(* The two cancel handlers on their own, started in each situation they    *)
(* can be called in: no scan yet, a scan in progress, a scan that ended;   *)
(* no run yet, a run waiting for its download, a run that closed.          *)
(***************************************************************************)
ScanSituation(sit, id, shown) ==
    /\ now = id
    /\ challenge = FALSE
    /\ hrefChanged = FALSE
    /\ scrapingInProgress = (sit = "running")
    /\ scrapingSessionId = IF sit = "running" THEN id ELSE Null
    /\ overlay = (sit = "running" /\ shown)
    /\ nscans = IF sit = "none" THEN 0 ELSE 1
    /\ scanCalls = IF sit = "none" THEN 0 ELSE 1
    /\ scan = [k \in Scans |->
                 IF k = 1 /\ sit = "running"
                 THEN [IdleFrame("scrollStep") EXCEPT !.currentSessionId = id]
                 ELSE IF k = 1 /\ sit = "ended"
                 THEN [IdleFrame("done") EXCEPT !.currentSessionId = id]
                 ELSE IdleFrame("none")]
    /\ csOut = IF sit = "ended" THEN <<Msg("SOUND_EFFECTS_EXTRACTED", 1, <<>>)>> ELSE <<>>
    /\ requests = IF sit = "none" THEN <<>>
                  ELSE <<[reply |-> "none", started |-> TRUE, notified |-> FALSE]>>

RunSituation(sit, id, n, paused) ==
    /\ isDownloadPaused = (sit = "running" /\ paused)
    /\ isDownloadCanceled = FALSE
    /\ currentDownloadSession = IF sit = "none" THEN Null ELSE id
    /\ downloadQueue = IF sit = "none" THEN 0 ELSE n
    /\ nruns = IF sit = "none" THEN 0 ELSE 1
    /\ run = [r \in Runs |->
                IF r = 1 /\ sit = "running"
                THEN [pc |-> "download", i |-> 0, totalCount |-> n, downloadedCount |-> 0]
                ELSE IF r = 1 /\ sit = "ended"
                THEN [pc |-> "done", i |-> n, totalCount |-> n, downloadedCount |-> 0]
                ELSE NoRun("none")]
    /\ emitted = [r \in Runs |->
                    IF r = 1 /\ sit # "none"
                    THEN <<PopupMsg("SOUND_EFFECTS_SCANNED", n), PopupMsg("DOWNLOAD_STARTED", n)>>
                         \o (IF sit = "ended" THEN <<PopupMsg("DOWNLOAD_COMPLETE", 0)>> ELSE <<>>)
                    ELSE <<>>]
    /\ attempts = [r \in Runs |->
                     IF r = 1 /\ sit = "running" THEN <<0>>
                     ELSE IF r = 1 /\ sit = "ended" THEN [i \in 1..n |-> i - 1]
                     ELSE <<>>]
    /\ fails = [r \in Runs |-> IF r = 1 /\ sit = "ended" THEN 0..(n - 1) ELSE {}]
    /\ submitted = [r \in Runs |->
                      IF r = 1 /\ sit = "running" THEN <<[i |-> 0, url |-> "downloadUrl"]>>
                      ELSE <<>>]
    /\ notices = [DOWNLOAD_PAUSED |-> IF sit = "running" /\ paused THEN 1 ELSE 0,
                  DOWNLOAD_RESUMED |-> 0, DOWNLOAD_CANCELED |-> 0]
    /\ cancelSeen = [r \in Runs |-> FALSE]
    /\ pauseHeld = [r \in Runs |-> FALSE]
    /\ nctl = 0
    /\ popupOpen = TRUE
    /\ lost = [r \in Runs |-> FALSE]

CancelSituations ==
    /\ \E sit \in {"none", "running", "ended"}, id \in 0..MaxClock, shown \in BOOLEAN :
          ScanSituation(sit, id, shown)
    /\ \E sit \in {"none", "running", "ended"}, id \in 0..MaxClock, n \in 1..MaxItems,
          paused \in BOOLEAN : RunSituation(sit, id, n, paused)

(***************************************************************************)
(* Specifications.                                                         *)
(***************************************************************************)
vars == <<csVars, ldVars, exVars, bgVars, dvVars, fnVars, rqVars, puVars>>

ScanNext ==
    \/ ScanRequest /\ UNCHANGED <<ldVars, exVars, bgVars, dvVars, fnVars, puVars>>
    \/ CancelRequest /\ UNCHANGED <<ldVars, exVars, bgVars, dvVars, fnVars, rqVars, puVars>>
    \/ UrlChange /\ UNCHANGED <<ldVars, exVars, bgVars, dvVars, fnVars, rqVars, puVars>>
    \/ NavigationPoll /\ UNCHANGED <<ldVars, exVars, bgVars, dvVars, fnVars, rqVars, puVars>>
    \/ ChallengeChange /\ UNCHANGED <<ldVars, exVars, bgVars, dvVars, fnVars, rqVars, puVars>>
    \/ Tick /\ UNCHANGED <<ldVars, exVars, bgVars, dvVars, fnVars, rqVars, puVars>>
    \/ \E k \in Scans : PageLoadTimer(k) /\ UNCHANGED <<ldVars, exVars, bgVars, dvVars, fnVars, rqVars, puVars>>
    \/ \E k \in Scans : ScrollTimer(k) /\ UNCHANGED <<ldVars, exVars, bgVars, dvVars, fnVars, rqVars, puVars>>
    \/ \E k \in Scans : ResolveTimer(k) /\ UNCHANGED <<ldVars, exVars, bgVars, dvVars, fnVars, rqVars, puVars>>
    \/ \E k \in Scans : BatchTimer(k) /\ UNCHANGED <<ldVars, exVars, bgVars, dvVars, fnVars, rqVars, puVars>>

ScanInit == csInit /\ ldIdle /\ exIdle /\ bgInit /\ dvInit /\ fnIdle /\ rqInit /\ puInit

SpecScan == ScanInit /\ [][ScanNext]_vars

LoaderNext == LoaderPoll /\ UNCHANGED <<csVars, exVars, bgVars, dvVars, fnVars, rqVars, puVars>>

LoaderInit == csInit /\ ldInit /\ exIdle /\ bgInit /\ dvInit /\ fnIdle /\ rqInit /\ puInit

SpecLoader == LoaderInit /\ [][LoaderNext]_vars

\* a timer that was set fires: setTimeout callbacks are not starved
SpecLoaderFair == SpecLoader /\ WF_vars(LoaderNext)

ExtractNext == Extract /\ UNCHANGED <<csVars, ldVars, bgVars, dvVars, fnVars, rqVars, puVars>>

ExtractInit == csInit /\ ldIdle /\ exInit /\ bgInit /\ dvInit /\ fnIdle /\ rqInit /\ puInit

SpecExtract == ExtractInit /\ [][ExtractNext]_vars

DownloadNext ==
    \/ ExtractedMsg /\ UNCHANGED <<csVars, ldVars, exVars, dvVars, fnVars, rqVars, puVars>>
    \/ PauseMsg /\ UNCHANGED <<csVars, ldVars, exVars, dvVars, fnVars, rqVars, puVars>>
    \/ ResumeMsg /\ UNCHANGED <<csVars, ldVars, exVars, dvVars, fnVars, rqVars, puVars>>
    \/ CancelMsg /\ UNCHANGED <<csVars, ldVars, exVars, dvVars, fnVars, rqVars, puVars>>
    \/ PopupToggle /\ UNCHANGED <<csVars, ldVars, exVars, dvVars, fnVars, rqVars, puVars>>
    \/ GetStateMsg /\ UNCHANGED <<csVars, ldVars, exVars, dvVars, fnVars, rqVars>>
    \/ \E r \in Runs : PauseTimer(r) /\ UNCHANGED <<csVars, ldVars, exVars, dvVars, fnVars, rqVars, puVars>>
    \/ \E r \in Runs : DownloadCallback(r) /\ UNCHANGED <<csVars, ldVars, exVars, dvVars, fnVars, rqVars, puVars>>
    \/ \E r \in Runs : SleepTimer(r) /\ UNCHANGED <<csVars, ldVars, exVars, dvVars, fnVars, rqVars, puVars>>

DownloadInit == csInit /\ ldIdle /\ exIdle /\ bgInit /\ dvInit /\ fnIdle /\ rqInit /\ puInit

SpecDownload == DownloadInit /\ [][DownloadNext]_vars

CascadeNext ==
    \/ downloadSoundEffect /\ UNCHANGED <<csVars, ldVars, exVars, bgVars, fnVars, rqVars, puVars>>
    \/ MethodSettles /\ UNCHANGED <<csVars, ldVars, exVars, bgVars, fnVars, rqVars, puVars>>

CascadeInit == csInit /\ ldIdle /\ exIdle /\ bgInit /\ dvInit /\ fnIdle /\ rqInit /\ puInit

SpecCascade == CascadeInit /\ [][CascadeNext]_vars

PathNext ==
    \/ SubmitStructured /\ UNCHANGED <<csVars, ldVars, exVars, bgVars, dvVars, rqVars, puVars>>
    \/ SubmitFlattened /\ UNCHANGED <<csVars, ldVars, exVars, bgVars, dvVars, rqVars, puVars>>

PathInit == csInit /\ ldIdle /\ exIdle /\ bgInit /\ dvInit /\ fnInit /\ rqInit /\ puInit

SpecPath == PathInit /\ [][PathNext]_vars

CancelNext ==
    \/ CancelRequest /\ UNCHANGED <<ldVars, exVars, bgVars, dvVars, fnVars, rqVars, puVars>>
    \/ CancelMsg /\ UNCHANGED <<csVars, ldVars, exVars, dvVars, fnVars, rqVars, puVars>>

CancelInit == CancelSituations /\ ldIdle /\ exIdle /\ dvInit /\ fnIdle /\ puInit

SpecCancel == CancelInit /\ [][CancelNext]_vars

(***************************************************************************)
(* Claims about the scanner.                                               *)
(***************************************************************************)
\* C1: a scan that was cancelled while suspended and has been followed by a
\* newer scan (here one whose session id differs from its own) terminates,
\* when it resumes, without side effects: its step
\* sends no message and leaves scrapingInProgress, scrapingSessionId and the
\* progress overlay as the newer scan has them.
C1_StaleScanInert ==
    [][\A k \in Scans :
          (/\ Suspended(k) /\ k < nscans
           /\ scan[k].currentSessionId # scrapingSessionId
           /\ scan'[k] # scan[k])
          => /\ scan'[k].pc = "done"
             /\ csOut' = csOut
             /\ scrapingInProgress' = scrapingInProgress
             /\ scrapingSessionId' = scrapingSessionId
             /\ overlay' = overlay]_vars

(***************************************************************************)
(* Claims about the extractor.                                             *)
(***************************************************************************)
\* C7: the ids of the records of one scan are pairwise distinct, also when
\* two candidate nodes carry the same numeric token in their links.
C7_IdsPairwiseDistinct ==
    extracted.done =>
        \A m, n \in 1..Len(extracted.soundEffects) :
            m # n => extracted.soundEffects[m].id # extracted.soundEffects[n].id

\* the qualifying nodes of each tier, in the order of the tiers: the audio
\* rows, the classified generic containers, the matches of each fallback
\* selector in list order, and the manual scan of the generic containers
Tiers(dom) ==
    <<querySelectorAll(dom, "audioRow"),
      SelectSeq(querySelectorAll(dom, "overlayContainer"), isAudioContainer)>>
    \o [n \in 1..Len(alternativeSelectors) |-> querySelectorAll(dom, alternativeSelectors[n])]
    \o <<SelectSeq(querySelectorAll(dom, "overlayContainer"), isAudioContainer)>>

\* the first tier with a qualifying node, 0 when there is none
FirstTier(dom) ==
    IF \A n \in 1..Len(Tiers(dom)) : Tiers(dom)[n] = <<>> THEN 0
    ELSE CHOOSE n \in 1..Len(Tiers(dom)) :
             Tiers(dom)[n] # <<>> /\ \A m \in 1..(n - 1) : Tiers(dom)[m] = <<>>

\* the positive signals of a node, in the order of the checks
Signals(c) ==
    (IF c.link >= PlainLink THEN {1} ELSE {})
        \cup (IF audioIndicators(c) THEN {2} ELSE {})
        \cup (IF "control" \in c.hint THEN {3} ELSE {})
        \cup (IF "duration" \in c.hint THEN {4} ELSE {})

\* C32: a node is classified as audio exactly when it has a positive signal
\* (audio link, markup hint, playback control, duration label), the first
\* signal in that order deciding; a node without one is classified false;
\* the image indicators change the result of no node and are looked at
\* only when there is no positive signal.
C32_ClassifierFirstSignalWins ==
    extracted.done =>
        \A n \in 1..Len(page) :
            LET c == page[n]
            IN  /\ isAudioContainer(c) <=> Signals(c) # {}
                /\ Signals(c) # {} =>
                       /\ decidedBy(c) \in Signals(c)
                       /\ \A g \in Signals(c) : decidedBy(c) <= g
                /\ \A b \in BOOLEAN :
                       isAudioContainer([c EXCEPT !.decoy = b]) = isAudioContainer(c)
                /\ decidedBy(c) = 5 => Signals(c) = {}

\* a generic container with an image indicator, no audio link and both a
\* playback control and a duration label was classified as audio by its
\* playback control
C32_Witness ==
    /\ extracted.done
    /\ Len(page) = 1
    /\ page[1].sel = "overlayContainer" /\ page[1].decoy
    /\ page[1].link = NoLink /\ page[1].hint = {"control", "duration"}
    /\ audioContainers(page) = page
    /\ decidedBy(page[1]) = 3

\* C31: extraction is strictly tiered: the records of a scan are those of the
\* nodes of one tier, the first tier that has a qualifying node, so that a
\* tier contributes only when every earlier tier had none; with no
\* qualifying node in any tier there is no record.
C31_ExtractionIsTiered ==
    extracted.done =>
        extracted.soundEffects =
            IF FirstTier(page) = 0 THEN <<>>
            ELSE extractEach(Tiers(page)[FirstTier(page)], 0)

\* a page with a qualifying node in two tiers, of which only the earlier
\* one gave a record
C31_Witness ==
    /\ extracted.done
    /\ Cardinality({n \in 1..Len(Tiers(page)) : Tiers(page)[n] # <<>>}) >= 2
    /\ Len(page) = 2
    /\ extractEach(page, 0) # extracted.soundEffects
    /\ Len(extracted.soundEffects) = 1

\* C37: on a page that is the same while the loader measures it and while
\* the extractor reads it, the scan has no more records than the item count
\* the loader measured last.
C37_RecordsWithinMeasuredCount ==
    extracted.done =>
        Len(extracted.soundEffects) <= countSoundEffectsOnCurrentPageFast(page)

(***************************************************************************)
(* Claims about the loader.                                                *)
(***************************************************************************)
\* poll n measured the same count as poll n - 1
UnchangedRead(q, n) == n >= 2 /\ n <= Len(q) /\ q[n] = q[n - 1]

\* polls n - 1 and n were both unchanged reads
TwoUnchangedReads(q, n) == UnchangedRead(q, n - 1) /\ UnchangedRead(q, n)

StoppedByCapOrBudget == ld.late \/ ld.scrollCount >= maxScrolls

\* C10: for every sequence of measured counts the loader stops at the first
\* poll at which the count has been unchanged on two consecutive polls, and
\* not earlier unless the iteration cap or the time budget stops it; for the
\* counts 5, 8, 8, 8 it stops after the 4th poll.
C10_StopsAtSecondUnchangedRead ==
    /\ (ld.pc = "resolve" /\ ~StoppedByCapOrBudget)
           => TwoUnchangedReads(polled, Len(polled))
    /\ ld.pc = "scrollStep" => ~TwoUnchangedReads(polled, Len(polled))
    /\ polled = <<5, 8, 8, 8>> => ld.pc = "resolve"
    /\ polled = <<5, 8, 8>> => ld.pc = "scrollStep"


\* C11: the loader always terminates: it never triggers more than 10 scrolls
\* nor measures the count more than 11 times, and it eventually resolves,
\* whatever counts the page shows.
C11_LoaderTerminates ==
    /\ [](ld.scrollCount <= 10 /\ Len(polled) <= 11)
    /\ <>(ld.pc = "resolve")

\* the loader was stopped by the cap, after 10 scrolls and 11 measurements
\* of a count that never settled
C11_Witness ==
    /\ ld.pc = "resolve" /\ ~ld.late
    /\ ld.scrollCount = 10 /\ Len(polled) = 11
    /\ ld.stableCount < StableThreshold

\* C30: whenever the loader stops, by two unchanged reads, by the iteration
\* cap or by the time budget, the view is at the position it had when
\* loading started, whatever that position was.
C30_ScrollPositionRestored == ld.pc = "resolve" => ld.scrollY = ld.startY

(***************************************************************************)
(* Claims about the download orchestrator.                                 *)
(***************************************************************************)
Started(r) == run[r].pc \notin {"none", "empty"}
Superseded(r) == \E q \in Runs : q > r /\ Started(q)
ClosingOf(r) == emitted[r][Len(emitted[r])]
Cancelled(r) == run[r].pc = "done" /\ ClosingOf(r).action = "DOWNLOAD_CANCELED"
Actions(r) == {emitted[r][n].action : n \in 1..Len(emitted[r])}

\* C2: once a newer run has been started, an earlier run still in its loop
\* is inert: it begins no further delivery and emits no further
\* UPDATE_PROGRESS, DOWNLOAD_COMPLETE or DOWNLOAD_CANCELED.
C2_SupersededRunInert ==
    [][\A r \in Runs :
          (Live(r) /\ Superseded(r))
          => (attempts'[r] = attempts[r] /\ emitted'[r] = emitted[r])]_vars

\* C3: after cancelDownload ran while a run was Running or Paused, that run
\* begins no delivery attempt for any further item.
C3_NoAttemptAfterCancel ==
    [][\A r \in Runs : cancelSeen[r] => attempts'[r] = attempts[r]]_vars

\* C4: when Pause() came between two items of a run, no delivery attempt is
\* made for the next item until Resume(); and when Cancel() came during the
\* pause, the run gains no success and closes with DOWNLOAD_CANCELED.
C4_PauseHoldsNextItem ==
    [][\A r \in Runs :
          /\ (pauseHeld[r] /\ pauseHeld'[r]) => attempts'[r] = attempts[r]
          /\ (pauseHeld[r] /\ pauseHeld'[r] /\ cancelSeen[r])
                => /\ run'[r].downloadedCount = run[r].downloadedCount
                   /\ (run[r].pc # "done" /\ run'[r].pc = "done")
                         => emitted'[r][Len(emitted'[r])].action = "DOWNLOAD_CANCELED"]_vars

\* C5: a run of n items that is not cancelled attempts every item, closes
\* with DOWNLOAD_COMPLETE (never DOWNLOAD_ERROR), and reports n minus the
\* number of items whose delivery failed.
C5_FailuresDoNotStopTheRun ==
    \A r \in Runs :
        (run[r].pc = "done" /\ ~cancelSeen[r])
        => /\ attempts[r] = [n \in 1..run[r].totalCount |-> n - 1]
           /\ ClosingOf(r) = PopupMsg("DOWNLOAD_COMPLETE",
                                      run[r].totalCount - Cardinality(fails[r]))
           /\ "DOWNLOAD_ERROR" \notin Actions(r)

\* a finished run in which the first item failed and a later one was delivered
C5_Witness ==
    \E r \in Runs :
        /\ run[r].pc = "done" /\ ~cancelSeen[r]
        /\ 0 \in fails[r]
        /\ run[r].downloadedCount >= 1

\* C6: within one run the delivery attempts follow the order of the item
\* list and no item is attempted twice, whatever Pause and Resume do.
C6_AttemptsInOrderAtMostOnce ==
    \A r \in Runs :
        /\ \A m, n \in 1..Len(attempts[r]) : m < n => attempts[r][m] < attempts[r][n]
        /\ \A m \in 1..Len(attempts[r]) : attempts[r][m] \in 0..(run[r].totalCount - 1)

\* a run that was paused and resumed and went on to its second item
C6_Witness ==
    \E r \in Runs :
        /\ Len(attempts[r]) >= 2
        /\ notices.DOWNLOAD_PAUSED >= 1
        /\ notices.DOWNLOAD_RESUMED >= 1

\* the DOWNLOAD_CANCELED notifications sent so far, by cancelDownload and by
\* the closing branch of the loops
CanceledSent ==
    notices.DOWNLOAD_CANCELED + Cardinality({r \in Runs : Cancelled(r)})

\* C8: a run aborted by cancellation produces exactly one DOWNLOAD_CANCELED:
\* when the only run that was started has been cancelled and has closed,
\* exactly one DOWNLOAD_CANCELED has been sent.
C8_OneCanceledPerCancelledRun ==
    (nruns = 1 /\ Cancelled(1)) => CanceledSent = 1

SentIn(out, k, a) == \E n \in 1..Len(out) : out[n].from = k /\ out[n].action = a

\* the step is a timer continuation of activation k
OwnStep(k) ==
    /\ Suspended(k)
    /\ <<scan'[k].pc, scan'[k].scrollCount, scan'[k].lastItemCount,
         scan'[k].stableCount, scan'[k].pending, scan'[k].soundEffects>>
       # <<scan[k].pc, scan[k].scrollCount, scan[k].lastItemCount,
           scan[k].stableCount, scan[k].pending, scan[k].soundEffects>>

LoaderGaveUp(k) == scan[k].stoppedBy \in {"cap", "budget"}

\* C12: a loader stopped by the time budget or the iteration cap is not a
\* failure: the scan never sends SCANNING_ERROR, and when it resumes and is
\* still current it goes on with the extraction or sends
\* SOUND_EFFECTS_EXTRACTED with what was extracted.
C12_TimeoutIsNotAFailure ==
    [][\A k \in Scans :
          /\ scan'[k].stoppedBy \in {"cap", "budget"}
                => ~SentIn(csOut', k, "SCANNING_ERROR")
          /\ (LoaderGaveUp(k) /\ OwnStep(k) /\ ScanIsCurrent(k))
                => \/ scan'[k].pc = "batchYield" /\ csOut' = csOut
                   \/ /\ scan'[k].pc = "done"
                      /\ Len(csOut') = Len(csOut) + 1
                      /\ csOut'[Len(csOut')].action = "SOUND_EFFECTS_EXTRACTED"
                      /\ csOut'[Len(csOut')].from = k]_vars

\* a scan whose loader ran out of its time budget has sent its result
C12_Witness ==
    \E k \in Scans :
        /\ scan[k].pc = "done"
        /\ scan[k].stoppedBy = "budget"
        /\ SentIn(csOut, k, "SOUND_EFFECTS_EXTRACTED")

\* C13: once cancelCurrentScan has run during a scan, that scan measures
\* and scrolls no more and sends nothing: its next continuation ends it.
C13_CancelledScanStops ==
    [][\A k \in Scans :
          (scan[k].cancelled /\ OwnStep(k))
          => (scan'[k].pc = "done" /\ csOut' = csOut)]_vars

\* C14: every call of scanSoundEffectsFromCurrentPage starts a scan, also
\* one that arrives while a scan is in progress.
C14_RequestSupersedes == nscans = scanCalls

\* C15: a scan during which the page URL changed never sends
\* SOUND_EFFECTS_EXTRACTED.
C15_NavigatedScanSendsNothing ==
    [][\A k \in Scans :
          (scan[k].navigated /\ OwnStep(k))
          => ~SentIn(csOut', k, "SOUND_EFFECTS_EXTRACTED")]_vars

\* C16: the session ids of any two scans differ, the later one being the
\* greater.
C16_SessionIdsIncrease ==
    \A j, k \in 1..nscans :
        j < k => scan[j].currentSessionId < scan[k].currentSessionId


\* C22: a scan in progress does not go on under a challenge: a continuation
\* of the current scan that runs while the page shows the challenge ends
\* the scan, and the scan sends no extraction result.
C22_ChallengeAbortsScan ==
    [][\A k \in Scans :
          (challenge /\ OwnStep(k) /\ ScanIsCurrent(k))
             => /\ scan'[k].pc = "done"
                /\ ~SentIn(csOut', k, "SOUND_EFFECTS_EXTRACTED")]_vars

\* C23: a scan request that reaches a page showing the challenge starts no
\* scan, and the popup is sent a scan-error notification for that request.
C23_ChallengedRequestIsReported ==
    \A i \in 1..Len(requests) :
        requests[i].reply = "error" => ~requests[i].started /\ requests[i].notified

\* C40: whenever the content script has returned to the event loop,
\* scrapingInProgress is true exactly when scrapingSessionId is not null,
\* after any sequence of scan starts, cancellations, navigations and scan
\* terminations.
C40_InProgressIffSessionId == scrapingInProgress <=> scrapingSessionId # Null

\* a scan was cancelled, a second one was started, and the first one has
\* ended while the second is still suspended
C40_Witness ==
    /\ nscans = 2
    /\ scan[1].pc = "done"
    /\ Suspended(2) /\ ~scan[2].cancelled
    /\ scan[1].currentSessionId # scan[2].currentSessionId
    /\ ~scrapingInProgress

\* C36: a CANCEL_SCAN message received while a scan is in progress cancels
\* it, whatever the page shows: in every state in which a scan is in
\* progress the handler leaves scrapingInProgress false, the session id
\* cleared and the overlay removed.
C36_CancelScanAlwaysCancels ==
    scrapingInProgress =>
        handleCancelScanOn(ScanFlags, challenge)
            = [scrapingInProgress |-> FALSE, scrapingSessionId |-> Null, overlay |-> FALSE]

\* C34: a scan that was started and is not itself cancelled, by CANCEL_SCAN
\* or by the navigation poll, ends by sending exactly one message, either
\* SOUND_EFFECTS_EXTRACTED or SCANNING_ERROR, and leaves scrapingInProgress
\* false, also when an earlier cancelled scan was still suspended when it
\* started.  A scan sends only in the step in which it returns, so this is
\* stated of that step.
C34_UncancelledScanReports ==
    [][\A k \in Scans :
          (Suspended(k) /\ ~scan[k].cancelled /\ scan'[k].pc = "done")
              => /\ Len(csOut') = Len(csOut) + 1
                 /\ csOut'[Len(csOut')].from = k
                 /\ csOut'[Len(csOut')].action \in {"SOUND_EFFECTS_EXTRACTED", "SCANNING_ERROR"}
                 /\ ~scrapingInProgress']_vars

(***************************************************************************)
(* Further claims about the download orchestrator.                         *)
(***************************************************************************)
\* C17: between two consecutive delivery attempts of a run there is a timed
\* wait: a step begins at most one attempt, and an attempt after the first
\* is begun only by the continuation of a sleep.
C17_PacingBetweenAttempts ==
    [][\A r \in Runs :
          /\ Len(attempts'[r]) <= Len(attempts[r]) + 1
          /\ (Len(attempts'[r]) > Len(attempts[r]) /\ Len(attempts[r]) >= 1)
                => run[r].pc \in {"sleep", "pauseSleep"}]_vars

\* how many times item i of run r was handed to chrome.downloads.download
Submissions(r, i) == Cardinality({k \in 1..Len(submitted[r]) : submitted[r][k].i = i})

\* C19: an item whose structured path the download subsystem rejected is
\* submitted a second time (the flattened retry) before it counts as failed,
\* and no item is submitted more than twice: a failed item was either never
\* submitted (it threw before the download) or submitted exactly twice.
C19_RejectedPathRetriedOnce ==
    \A r \in Runs : \A i \in 0..(MaxItems - 1) :
        /\ Submissions(r, i) <= 2
        /\ i \in fails[r] => Submissions(r, i) # 1

\* C20: the URL handed to chrome.downloads.download for an item is never
\* taken from the item's previewUrl (the src of its thumbnail image), also
\* when its downloadUrl is missing or is not a direct audio URL.
C20_PreviewUrlNeverSubmitted ==
    \A r \in Runs : \A k \in 1..Len(submitted[r]) : submitted[r][k].url # "previewUrl"

\* the messages of run r that tell the popup of a failed delivery: those that
\* are not one of the scan, start, progress and closing notifications
FailureNotices(r) ==
    {n \in 1..Len(emitted[r]) :
        emitted[r][n].action \notin {"SOUND_EFFECTS_SCANNED", "SCANNING_ERROR",
                                     "DOWNLOAD_STARTED", "UPDATE_PROGRESS",
                                     "DOWNLOAD_COMPLETE", "DOWNLOAD_CANCELED"}}

\* C24: every item whose delivery failed is reported to the popup: a run has
\* sent at least one failure notification for each of its failed items.
C24_FailedItemsAreReported ==
    \A r \in Runs : Cardinality(FailureNotices(r)) >= Cardinality(fails[r])

\* the submissions of run r whose download was started
Delivered(r) == {k \in 1..Len(submitted[r]) : submitted[r][k].i \notin fails[r]}

\* C25: a send that fails because no popup listens never fails the run: no
\* run sends DOWNLOAD_ERROR, and a finished run has closed with
\* DOWNLOAD_COMPLETE or DOWNLOAD_CANCELED (the latter only after a cancel)
\* carrying the number of its submissions that were started, whether or not
\* messages of it were lost.
C25_SendFailureNeverFailsTheRun ==
    \A r \in Runs :
        /\ \A n \in 1..Len(emitted[r]) : emitted[r][n].action # "DOWNLOAD_ERROR"
        /\ run[r].pc = "done"
              => LET last == emitted[r][Len(emitted[r])]
                 IN  /\ last.action \in {"DOWNLOAD_COMPLETE", "DOWNLOAD_CANCELED"}
                     /\ last.action = "DOWNLOAD_CANCELED" => notices.DOWNLOAD_CANCELED > 0
                     /\ last.count = Cardinality(Delivered(r))
                     /\ last.count = run[r].downloadedCount

\* a run that lost messages to a closed popup has delivered an item and
\* closed with DOWNLOAD_COMPLETE
C25_Witness ==
    \E r \in Runs :
        /\ run[r].pc = "done"
        /\ lost[r]
        /\ ~popupOpen
        /\ emitted[r][Len(emitted[r])] = PopupMsg("DOWNLOAD_COMPLETE", 1)

\* the pair of the most recent UPDATE_PROGRESS sent, Null when there is none
LastProgress ==
    LET sent == {<<r, n>> \in Runs \X (1..(2 * MaxItems + 3)) :
                    n <= Len(emitted[r]) /\ emitted[r][n].action = "UPDATE_PROGRESS"}
    IN  IF sent = {} THEN Null
        ELSE LET p == CHOOSE p \in sent : \A q \in sent : q[1] < p[1] \/ (q[1] = p[1] /\ q[2] <= p[2])
             IN  emitted[p[1]][p[2]].current

\* C26: what a popup that reattaches restores from GET_EXTENSION_STATE
\* matches the orchestrator at that moment: downloading iff a run is live,
\* paused iff the download is paused, and while a run is live the progress
\* of the most recent UPDATE_PROGRESS.
C26_RestoredStateMatches ==
    [][restored' # restored
          => /\ restored'.isDownloading = (\E r \in Runs : Live(r))
             /\ restored'.isPaused = ((\E r \in Runs : Live(r)) /\ isDownloadPaused)
             /\ (\E r \in Runs : Live(r)) => restored'.currentProgress = LastProgress]_vars

\* C27: a run that was live when Cancel() came closes with the final
\* DOWNLOAD_CANCELED summary carrying its count of delivered items: once its
\* loop is over, that is the message it closed with.
C27_CancelledRunClosesCanceled ==
    \A r \in Runs :
        (run[r].pc = "done" /\ cancelSeen[r])
            => ClosingOf(r) = PopupMsg("DOWNLOAD_CANCELED", run[r].downloadedCount)

\* the messages with action a among those sent to the popup for run r
Sent(out, a) == {k \in 1..Len(out) : out[k].action = a}

\* C33: a SOUND_EFFECTS_EXTRACTED message with no record starts no download
\* run (nothing is attempted or submitted for it) and the popup is sent the
\* warning that no sound effects were found; a message with n >= 1 records
\* starts exactly one run, over n items; no other run is started or changed
\* by the message.
C33_EmptyScanStartsNoRun ==
    [][nruns' # nruns =>
          LET r == nruns'
              n == emitted'[r][1].count
          IN  /\ n = 0 => /\ run'[r] = NoRun("empty")
                          /\ attempts'[r] = <<>> /\ submitted'[r] = <<>>
                          /\ Sent(emitted'[r], "SCANNING_ERROR") # {}
                          /\ Sent(emitted'[r], "DOWNLOAD_STARTED") = {}
              /\ n >= 1 => /\ run'[r].pc \notin {"none", "empty"}
                           /\ run'[r].totalCount = n
                           /\ Cardinality(Sent(emitted'[r], "DOWNLOAD_STARTED")) = 1
                           /\ Sent(emitted'[r], "SCANNING_ERROR") = {}
              /\ \A q \in Runs \ {r} : run'[q] = run[q] /\ emitted'[q] = emitted[q]]_vars

\* a message without records was handled, then one with two records
C33_Witness ==
    /\ nruns = 2
    /\ run[1] = NoRun("empty") /\ Sent(emitted[1], "SCANNING_ERROR") # {}
    /\ run[2].pc = "download" /\ run[2].totalCount = 2

\* C35: once a DOWNLOAD_CANCELED has been sent for a run, by cancelDownload
\* while the run was live or by the run's own closing branch, no
\* UPDATE_PROGRESS is sent for that run any more, also when the cancel came
\* while a download of the run was in flight.
C35_NoProgressAfterCanceled ==
    [][\A r \in Runs :
          (cancelSeen[r] \/ Sent(emitted[r], "DOWNLOAD_CANCELED") # {})
              => Sent(emitted'[r], "UPDATE_PROGRESS") = Sent(emitted[r], "UPDATE_PROGRESS")]_vars

\* the UPDATE_PROGRESS messages of run r, in the order they were sent
Progress(r) == SelectSeq(emitted[r], LAMBDA m : m.action = "UPDATE_PROGRESS")

\* C38: for every run the UPDATE_PROGRESS messages carry current = 1, 2, 3,
\* ... in that order, with 1 <= current <= total and total the number of
\* items the run was started with, and the count of the closing
\* DOWNLOAD_COMPLETE or DOWNLOAD_CANCELED is the last current sent, 0 when
\* none was sent.
C38_ProgressCountsUp ==
    \A r \in Runs :
        /\ \A n \in 1..Len(Progress(r)) :
               /\ Progress(r)[n].current = n
               /\ Progress(r)[n].current <= Progress(r)[n].total
               /\ Progress(r)[n].total = emitted[r][1].count
        /\ (run[r].pc = "done"
              /\ ClosingOf(r).action \in {"DOWNLOAD_COMPLETE", "DOWNLOAD_CANCELED"})
               => ClosingOf(r).count = Len(Progress(r))

\* a run of two items sent two progress messages and closed with count 2,
\* and a run closed after a cancel with the one item it had delivered
C38_Witness ==
    /\ run[1].pc = "done" /\ Len(Progress(1)) = 2
    /\ ClosingOf(1) = PopupMsg("DOWNLOAD_COMPLETE", 2)
    /\ run[2].pc = "done" /\ Len(Progress(2)) = 1 /\ run[2].totalCount = 2
    /\ ClosingOf(2) = PopupMsg("DOWNLOAD_CANCELED", 1)

\* C39: Pause and Cancel requests handled while no run is active do not
\* reach the next run: every run begins with both flags cleared and goes
\* on to attempt its first item before it is suspended.
C39_StaleControlsDoNotReachNextRun ==
    [][(nruns' # nruns /\ run'[nruns'].pc # "empty")
          => /\ ~isDownloadPaused' /\ ~isDownloadCanceled'
             /\ attempts'[nruns'] # <<>>
             /\ attempts'[nruns'][1] = 0
             /\ run'[nruns'].pc # "pauseSleep"
             /\ Sent(emitted'[nruns'], "DOWNLOAD_CANCELED") = {}]_vars

\* PAUSE_DOWNLOAD and CANCEL_DOWNLOAD were handled before the first run was
\* started, and that run has submitted the download of its first item
C39_Witness ==
    /\ nruns = 1 /\ run[1].pc = "download" /\ attempts[1] = <<0>>
    /\ notices.DOWNLOAD_PAUSED = 1 /\ notices.DOWNLOAD_CANCELED = 1
    /\ notices.DOWNLOAD_RESUMED = 0
    /\ ~cancelSeen[1] /\ ~isDownloadPaused /\ ~isDownloadCanceled

ExpectedExtension(u) ==
    IF Len(u) >= 2 /\ u[Len(u) - 1] = "." /\ toLowerCase(u[Len(u)]) \in audioExtensions
    THEN toLowerCase(u[Len(u)])
    ELSE "mp3"

EndsInExtension(path, ext) ==
    /\ Len(path) >= 3
    /\ path[Len(path)] = ext
    /\ path[Len(path) - 1] = "."
    /\ path[Len(path) - 2] # "."

C28_CancelIsIdempotent ==
    /\ cancelCurrentScanOn(cancelCurrentScanOn(ScanFlags)) = cancelCurrentScanOn(ScanFlags)
    /\ cancelDownloadOn(cancelDownloadOn(DownloadFlags)) = cancelDownloadOn(DownloadFlags)
    /\ nctl >= 1 => cancelDownloadOn(DownloadFlags) = DownloadFlags
    /\ (\E k \in Scans : scan[k].cancelled) => cancelCurrentScanOn(ScanFlags) = ScanFlags

\* both handlers have run, cancelDownload twice, on a scan in progress and
\* on a run that had closed
C28_Witness ==
    /\ nctl = 2
    /\ run[1].pc = "done"
    /\ isDownloadCanceled
    /\ notices.DOWNLOAD_CANCELED = 2
    /\ scan[1].cancelled
    /\ scrapingSessionId = Null

==============================================================================
